---- MODULE Spec2Model ----
(***************************************************************************)
(* Model of function_app.py: the blob-triggered transcription coordinator  *)
(* (blobberfunction), the three assessment workers and the raw transcript  *)
(* persister that consume the Service Bus topic, and the HTTP route that   *)
(* lists the stored transcripts.                                           *)
(*                                                                         *)
(* Text is modelled at the level of JSON lexemes: a text is a sequence of  *)
(* tokens, json.dumps produces such a sequence and json.loads parses one.  *)
(***************************************************************************)
EXTENDS Integers, Sequences, FiniteSets, TLC

VARIABLES
    pc,               \* position of blobberfunction's caller thread
    failure,          \* which collaborator call raised, "none" if none did
    transcript_lines, \* the list the transcribed handler appends to
    done,             \* the threading.Event flag
    session,          \* the speech session: what the collaborator has done so far
    delivered,        \* the events the session has delivered to the handlers, in order
    doneTransitions,  \* how often the flag went from unset to set
    transcript,       \* local of blobberfunction
    call_id,          \* local of blobberfunction
    transcript_json,  \* local of blobberfunction
    environ,          \* os.environ, the part the code reads
    topics,           \* the Service Bus topics: name -> messages sent, in order
    uuids,            \* how many uuid4 values have been drawn
    assessStore,      \* the Cosmos container COSMOS_CONTAINER2
    transcriptStore,  \* the Cosmos container COSMOS_CONTAINER1
    last,             \* the most recent consumer invocation and what it did
    deliveries,       \* how many messages the topic has handed to consumers
    failed,           \* consumers that left a valid message of blobberfunction without a record
    http              \* the most recent response of get_all_transcripts

vars == <<pc, failure, transcript_lines, done, session, delivered, doneTransitions,
          transcript, call_id, transcript_json, environ, topics, uuids,
          assessStore, transcriptStore, last, deliveries, failed, http>>

coordVars == <<pc, failure, transcript_lines, done, session, delivered,
               doneTransitions, transcript, call_id, transcript_json, topics>>

consumerVars == <<assessStore, transcriptStore, last, deliveries, failed, http>>

-----------------------------------------------------------------------------
\* Bounds of the model.

\* utterance events one session delivers at most
MaxUtterances == 3

\* messages the topic hands to consumers, at most
MaxDeliveries == 2

-----------------------------------------------------------------------------
\* JSON text: tokens, json.dumps, json.loads.

Tok(t, s, n) == [t |-> t, s |-> s, n |-> n]
LBrace   == Tok("{", "", 0)
RBrace   == Tok("}", "", 0)
LBracket == Tok("[", "", 0)
RBracket == Tok("]", "", 0)
Colon    == Tok(":", "", 0)
Comma    == Tok(",", "", 0)
Space    == Tok("ws", " ", 0)
Newline  == Tok("ws", "\n", 0)
Null     == Tok("null", "", 0)
Str(s)   == Tok("str", s, 0)
Num(n)   == Tok("int", "", n)
\* a number with a fraction: n tenths
Float(n) == Tok("float", "", n)
\* a lexeme that is no JSON token: a word of prose, a markdown fence
Junk(s)  == Tok("junk", s, 0)
\* a byte sequence that is not UTF-8
BadByte  == Tok("badbyte", "", 0)

\* A parsed JSON value: kind k, its string s or number n, and for an object
\* (a dict) or an array its members d, in insertion order.
Scalar(k, s, n) == [s |-> s, n |-> n, k |-> k]
Value(k, s, n, d) == [s |-> s, n |-> n, k |-> k, d |-> d]
None == Value("null", "", 0, <<>>)
StrValue(s) == Value("str", s, 0, <<>>)
Dict(d) == Value("obj", "", 0, d)

IsScalarTok(tok) == tok.t \in {"str", "int", "float", "null"}
ScalarOf(tok) == Scalar(tok.t, tok.s, tok.n)
Lift(sc) == Value(sc.k, sc.s, sc.n, <<>>)

\* d[key] = val on a dict: an existing key keeps its place and takes the value
DictSet(d, key, val) ==
    IF \E i \in 1..Len(d) : d[i].key = key
    THEN [i \in 1..Len(d) |-> IF d[i].key = key THEN [key |-> key, val |-> val] ELSE d[i]]
    ELSE Append(d, [key |-> key, val |-> val])

Keys(v) == IF v.k = "obj" THEN {v.d[i].key : i \in 1..Len(v.d)} ELSE {}

\* data.get(key): the value under key, None when the key is absent
Get(v, key) ==
    IF key \in Keys(v)
    THEN Lift(v.d[CHOOSE i \in 1..Len(v.d) : v.d[i].key = key].val)
    ELSE None

\* Python truth value of a parsed value: None, "", 0, 0.0, {} and [] are false
Truthy(v) ==
    CASE v.k = "null"  -> FALSE
      [] v.k = "str"   -> v.s # ""
      [] v.k = "int"   -> v.n # 0
      [] v.k = "float" -> v.n # 0
      [] OTHER         -> v.d # <<>>

ParseError == [ok |-> FALSE, v |-> None]
Parsed(v) == [ok |-> TRUE, v |-> v]

\* the members of an object, toks being the tokens between its braces
RECURSIVE Members(_, _, _)
Members(toks, i, acc) ==
    IF i + 2 > Len(toks) THEN ParseError
    ELSE IF toks[i].t = "str" /\ toks[i + 1].t = ":" /\ IsScalarTok(toks[i + 2])
    THEN LET acc2 == DictSet(acc, toks[i].s, ScalarOf(toks[i + 2]))
         IN  IF i + 2 = Len(toks) THEN Parsed(Dict(acc2))
             ELSE IF toks[i + 3].t = "," THEN Members(toks, i + 4, acc2)
             ELSE ParseError
    ELSE ParseError

\* the elements of an array, toks being the tokens between its brackets
RECURSIVE Elements(_, _, _)
Elements(toks, i, acc) ==
    IF i > Len(toks) THEN ParseError
    ELSE IF IsScalarTok(toks[i])
    THEN LET acc2 == Append(acc, [key |-> "", val |-> ScalarOf(toks[i])])
         IN  IF i = Len(toks) THEN Parsed(Value("arr", "", 0, acc2))
             ELSE IF toks[i + 1].t = "," THEN Elements(toks, i + 2, acc2)
             ELSE ParseError
    ELSE ParseError

\* json.loads: whitespace between tokens is skipped; exactly one value, an
\* object or array of scalars or a scalar, must make up the whole text
json_loads(text) ==
    LET toks == SelectSeq(text, LAMBDA tok : tok.t # "ws")
        n == Len(toks)
    IN  IF n = 0 THEN ParseError
        ELSE IF n = 1
        THEN IF IsScalarTok(toks[1]) THEN Parsed(Lift(ScalarOf(toks[1]))) ELSE ParseError
        ELSE IF toks[1].t = "{" /\ toks[n].t = "}"
        THEN IF n = 2 THEN Parsed(Dict(<<>>)) ELSE Members(SubSeq(toks, 2, n - 1), 1, <<>>)
        ELSE IF toks[1].t = "[" /\ toks[n].t = "]"
        THEN IF n = 2 THEN Parsed(Value("arr", "", 0, <<>>))
             ELSE Elements(SubSeq(toks, 2, n - 1), 1, <<>>)
        ELSE ParseError

\* json.dumps of a dict of string values, with the default separators ", " and ": "
RECURSIVE DumpMembers(_)
DumpMembers(d) ==
    IF d = <<>> THEN <<>>
    ELSE <<Str(d[1].key), Colon, Space, Tok(d[1].val.k, d[1].val.s, d[1].val.n)>>
         \o (IF Len(d) = 1 THEN <<>> ELSE <<Comma, Space>> \o DumpMembers(Tail(d)))

json_dumps(v) == <<LBrace>> \o DumpMembers(v.d) \o <<RBrace>>

\* str.strip(): leading and trailing whitespace removed
RECURSIVE LStrip(_)
LStrip(text) ==
    IF text # <<>> /\ text[1].t = "ws" THEN LStrip(Tail(text)) ELSE text

RECURSIVE RStrip(_)
RStrip(text) ==
    IF text # <<>> /\ text[Len(text)].t = "ws"
    THEN RStrip(SubSeq(text, 1, Len(text) - 1)) ELSE text

Strip(text) == RStrip(LStrip(text))

\* bytes.decode('utf-8'): raises on a byte sequence that is not UTF-8
Decodes(body) == \A i \in 1..Len(body) : body[i].t # "badbyte"

-----------------------------------------------------------------------------
\* The speech session's events and the environment.

\* speaker_id of a result: "" when the service assigned none
Speakers == {"", "Guest-1", "Guest-2"}
Texts == {"", "hello"}
Reasons == {"Error", "EndOfStream"}

Event(type, speaker_id, text, reason) ==
    [text |-> text, type |-> type, speaker_id |-> speaker_id, reason |-> reason]

TopicNames == {"transcripttopic", "transcriptstopic"}

\* os.getenv(name, default); "" stands for a variable that is not set
Getenv(env, name, default) == IF env[name] = "" THEN default ELSE env[name]

\* str(uuid.uuid4()): the n-th value drawn; no two draws are equal
uuid4(n) == "uuid-" \o ToString(n)

\* variant: a flag that flips on every set
EventSetToggle(flag) == ~flag
\* threading.Event.set(): the flag is true afterwards, whatever it was
EventSet(flag) == TRUE

\* "\n".join(lines)
RECURSIVE JoinLines(_)
JoinLines(lines) ==
    IF lines = <<>> THEN ""
    ELSE IF Len(lines) = 1 THEN lines[1]
    ELSE lines[1] \o "\n" \o JoinLines(Tail(lines))

\* variant: the id is left out of the label
LabelWithoutId(speaker) == IF speaker # "" THEN "Speaker" ELSE "Unknown"

\* f"Speaker {speaker}" if speaker else "Unknown"
Label(speaker) == IF speaker # "" THEN "Speaker " \o speaker ELSE "Unknown"

\* no request has been answered yet
NoResponse ==
    [status_code |-> 0, body |-> <<>>, mimetype |-> "", fault |-> "none",
     read |-> {}, wrote |-> {}, removed |-> {}]

NoInvocation ==
    [fn |-> "none", body |-> <<>>, response |-> <<>>, fault |-> "none",
     outcome |-> "none", scored |-> FALSE, wrote |-> {}, removed |-> {},
     wroteTranscripts |-> {}, removedTranscripts |-> {}]

Init ==
    /\ pc = "start"
    /\ failure = "none"
    /\ transcript_lines = <<>>
    /\ done = FALSE
    /\ session = [active |-> FALSE, canceled |-> FALSE, stopped |-> FALSE,
                  stopRequested |-> FALSE]
    /\ delivered = <<>>
    /\ doneTransitions = 0
    /\ transcript = ""
    /\ call_id = ""
    /\ transcript_json = <<>>
    /\ environ \in {[AZURE_SERVICEBUS_TOPIC_NAME |-> t] : t \in {"", "transcriptstopic"}}
    /\ topics = [t \in TopicNames |-> <<>>]
    /\ uuids = 0
    /\ assessStore = {}
    /\ transcriptStore = {}
    /\ last = NoInvocation
    /\ deliveries = 0
    /\ failed = {}
    /\ http = NoResponse

-----------------------------------------------------------------------------
\* blobberfunction: the handlers, run by the session's threads.

Utterances == Len(SelectSeq(delivered, LAMBDA e : e.type = "transcribed"))

\* variant: the newest line is put in front of the list
handle_transcribed_prepends(evt) ==
    /\ session.active /\ ~session.stopped
    /\ Utterances < MaxUtterances
    /\ delivered' = Append(delivered, evt)
    /\ transcript_lines' =
           IF evt.text # ""
           THEN <<Label(evt.speaker_id) \o ": " \o evt.text>> \o transcript_lines
           ELSE transcript_lines
    /\ UNCHANGED <<pc, failure, done, session, doneTransitions, transcript, call_id,
                   transcript_json, environ, topics, uuids, consumerVars>>

\* variant: the line is appended without the test for text
handle_transcribed_keeps_empty(evt) ==
    /\ session.active /\ ~session.stopped
    /\ Utterances < MaxUtterances
    /\ delivered' = Append(delivered, evt)
    /\ transcript_lines' = Append(transcript_lines, Label(evt.speaker_id) \o ": " \o evt.text)
    /\ UNCHANGED <<pc, failure, done, session, doneTransitions, transcript, call_id,
                   transcript_json, environ, topics, uuids, consumerVars>>

\* handle_transcribed(evt)
handle_transcribed(evt) ==
    /\ session.active /\ ~session.stopped
    /\ Utterances < MaxUtterances
    /\ delivered' = Append(delivered, evt)
    /\ LET speaker == evt.speaker_id
           label == Label(speaker)
       IN  transcript_lines' =
               IF evt.text # ""
               THEN Append(transcript_lines, label \o ": " \o evt.text)
               ELSE transcript_lines
    /\ UNCHANGED <<pc, failure, done, session, doneTransitions, transcript, call_id,
                   transcript_json, environ, topics, uuids, consumerVars>>

\* handle_transcribed(evt), run for an utterance the session delivers although
\* the stop call has returned: the handler stays connected and appends as ever
handle_transcribed_late(evt) ==
    /\ session.stopRequested
    /\ Utterances < MaxUtterances
    /\ delivered' = Append(delivered, evt)
    /\ LET speaker == evt.speaker_id
           label == Label(speaker)
       IN  transcript_lines' =
               IF evt.text # ""
               THEN Append(transcript_lines, label \o ": " \o evt.text)
               ELSE transcript_lines
    /\ UNCHANGED <<pc, failure, done, session, doneTransitions, transcript, call_id,
                   transcript_json, environ, topics, uuids, consumerVars>>

\* variant: an Error reason is logged and the handler returns before done.set()
handle_canceled_error_returns(evt) ==
    /\ session.active /\ ~session.canceled
    /\ delivered' = Append(delivered, evt)
    /\ session' = [session EXCEPT !.canceled = TRUE]
    /\ done' = IF evt.reason = "Error" THEN done ELSE EventSet(done)
    /\ doneTransitions' = IF ~done /\ done' THEN doneTransitions + 1 ELSE doneTransitions
    /\ UNCHANGED <<pc, failure, transcript_lines, transcript, call_id,
                   transcript_json, environ, topics, uuids, consumerVars>>

\* handle_canceled(evt)
handle_canceled(evt) ==
    /\ session.active /\ ~session.canceled
    /\ delivered' = Append(delivered, evt)
    /\ session' = [session EXCEPT !.canceled = TRUE]
    /\ done' = EventSet(done)
    /\ doneTransitions' = IF ~done /\ done' THEN doneTransitions + 1 ELSE doneTransitions
    /\ UNCHANGED <<pc, failure, transcript_lines, transcript, call_id,
                   transcript_json, environ, topics, uuids, consumerVars>>

\* handle_session_stopped(evt)
handle_session_stopped(evt) ==
    /\ session.active /\ ~session.stopped
    /\ delivered' = Append(delivered, evt)
    /\ session' = [session EXCEPT !.stopped = TRUE]
    /\ done' = EventSet(done)
    /\ doneTransitions' = IF ~done /\ done' THEN doneTransitions + 1 ELSE doneTransitions
    /\ UNCHANGED <<pc, failure, transcript_lines, transcript, call_id,
                   transcript_json, environ, topics, uuids, consumerVars>>

-----------------------------------------------------------------------------
\* blobberfunction: the caller's thread, one step per blocking call.

\* transcriber.start_transcribing_async().get(): the session opens, or the
\* recognizer is unreachable and the call raises
start_transcribing ==
    /\ pc = "start"
    /\ \/ /\ pc' = "wait"
          /\ session' = [session EXCEPT !.active = TRUE]
          /\ UNCHANGED failure
       \/ /\ pc' = "raised"
          /\ failure' = "start"
          /\ UNCHANGED session
    /\ UNCHANGED <<transcript_lines, done, delivered, doneTransitions, transcript,
                   call_id, transcript_json, environ, topics, uuids, consumerVars>>

\* variant: the caller goes on without waiting for the flag
done_wait_unguarded ==
    /\ pc = "wait"
    /\ pc' = "stop"
    /\ UNCHANGED <<failure, transcript_lines, done, session, delivered,
                   doneTransitions, transcript, call_id, transcript_json, environ,
                   topics, uuids, consumerVars>>

\* done.wait(): returns once the flag is set; there is no timeout
done_wait ==
    /\ pc = "wait"
    /\ done
    /\ pc' = "stop"
    /\ UNCHANGED <<failure, transcript_lines, done, session, delivered,
                   doneTransitions, transcript, call_id, transcript_json, environ,
                   topics, uuids, consumerVars>>

\* transcriber.stop_transcribing_async().get(): the session is closed when the
\* call returns and delivers nothing afterwards; the call may raise
stop_transcribing ==
    /\ pc = "stop"
    /\ session' = [session EXCEPT !.active = FALSE, !.stopRequested = TRUE]
    /\ \/ pc' = "join" /\ UNCHANGED failure
       \/ pc' = "raised" /\ failure' = "stop"
    /\ UNCHANGED <<transcript_lines, done, delivered, doneTransitions, transcript,
                   call_id, transcript_json, environ, topics, uuids, consumerVars>>

\* variant: an empty transcript is left out of the dict
MessageDictSparse(cid, text) ==
    Dict(IF text = "" THEN <<[key |-> "call_id", val |-> Scalar("str", cid, 0)]>>
         ELSE <<[key |-> "call_id", val |-> Scalar("str", cid, 0)],
                [key |-> "transcript", val |-> Scalar("str", text, 0)]>>)

\* the dict handed to json.dumps
MessageDict(cid, text) ==
    Dict(<<[key |-> "call_id", val |-> Scalar("str", cid, 0)],
           [key |-> "transcript", val |-> Scalar("str", text, 0)]>>)

\* the transcript is joined, the call_id drawn and the message body encoded
join_transcript ==
    /\ pc = "join"
    /\ transcript' = JoinLines(transcript_lines)
    /\ uuids' = uuids + 1
    /\ call_id' = uuid4(uuids')
    /\ transcript_json' = json_dumps(MessageDict(call_id', transcript'))
    /\ pc' = "send"
    /\ UNCHANGED <<failure, transcript_lines, done, session, delivered,
                   doneTransitions, environ, topics, consumerVars>>

\* variant: the message is on the topic although the send raises
send_messages_raises_late ==
    /\ pc = "send"
    /\ LET topic_name == Getenv(environ, "AZURE_SERVICEBUS_TOPIC_NAME", "transcripttopic")
       IN  /\ topics' = [topics EXCEPT ![topic_name] = Append(@, transcript_json)]
           /\ \/ pc' = "sent" /\ UNCHANGED failure
              \/ pc' = "raised" /\ failure' = "send"
    /\ UNCHANGED <<transcript_lines, done, session, delivered, doneTransitions,
                   transcript, call_id, transcript_json, environ, uuids, consumerVars>>

\* sender.send_messages(message): one send to the configured topic; a send
\* that raises leaves the function through the exception
send_messages ==
    /\ pc = "send"
    /\ LET topic_name == Getenv(environ, "AZURE_SERVICEBUS_TOPIC_NAME", "transcripttopic")
       IN  \/ /\ topics' = [topics EXCEPT ![topic_name] = Append(@, transcript_json)]
              /\ pc' = "sent"
              /\ UNCHANGED failure
           \/ /\ pc' = "raised"
              /\ failure' = "send"
              /\ UNCHANGED topics
    /\ UNCHANGED <<transcript_lines, done, session, delivered, doneTransitions,
                   transcript, call_id, transcript_json, environ, uuids, consumerVars>>

CoordNext ==
    \/ start_transcribing
    \/ \E sp \in Speakers, tx \in Texts :
           handle_transcribed(Event("transcribed", sp, tx, ""))
    \/ \E r \in Reasons : handle_canceled(Event("canceled", "", "", r))
    \/ handle_session_stopped(Event("session_stopped", "", "", ""))
    \/ done_wait
    \/ stop_transcribing
    \/ join_transcript
    \/ send_messages

CoordSpec == Init /\ [][CoordNext]_vars

\* blobberfunction with a session that may deliver utterances at any time,
\* also after the stop call has returned
LateNext ==
    \/ CoordNext
    \/ \E sp \in Speakers, tx \in Texts :
           handle_transcribed_late(Event("transcribed", sp, tx, ""))

LateSpec == Init /\ [][LateNext]_vars

\* the session's threads and the caller's thread all keep running
FairCoordSpec == CoordSpec /\ WF_vars(done_wait) /\ WF_vars(stop_transcribing)
                 /\ WF_vars(join_transcript) /\ WF_vars(send_messages)

-----------------------------------------------------------------------------
\* The consumers of the topic "transcriptstopic".

WorkerFns == {"politeness_from_topic", "empathy_from_topic", "professionalism_from_topic"}

\* the four functions triggered by the topic
Consumers == WorkerFns \cup {"topic_to_cosmos"}

\* topic_name of the trigger of each consumer
SubscribedTopic(fn) ==
    CASE fn = "politeness_from_topic" -> "transcriptstopic"
      [] fn = "empathy_from_topic" -> "transcriptstopic"
      [] fn = "professionalism_from_topic" -> "transcriptstopic"
      [] fn = "topic_to_cosmos" -> "transcriptstopic"

\* the "type" each worker writes
Dimension(fn) ==
    CASE fn = "politeness_from_topic" -> "politeness"
      [] fn = "empathy_from_topic" -> "empathy"
      [] fn = "professionalism_from_topic" -> "professionalism"
      [] OTHER -> ""

\* what can go wrong with a collaborator during one invocation: the scorer
\* call raises, the scorer returns a choice without content, the store raises
Faults == {"none", "scorer", "no_content", "store"}

Obj2(k1, t1, k2, t2) ==
    <<LBrace, Str(k1), Colon, Space, t1, Comma, Space, Str(k2), Colon, Space, t2, RBrace>>

Obj3(k1, t1, k2, t2, k3, t3) ==
    <<LBrace, Str(k1), Colon, Space, t1, Comma, Space, Str(k2), Colon, Space, t2,
      Comma, Space, Str(k3), Colon, Space, t3, RBrace>>

\* message bodies other producers may have put on the topic
TestBodies ==
    { <<Junk("hello"), Space, Junk("world")>>,
      <<BadByte>>,
      <<LBracket, Str("c-1"), RBracket>>,
      <<Str("c-1")>>,
      <<LBrace, Str("call_id"), Colon, Space, Str("c-1"), RBrace>>,
      <<LBrace, Str("transcript"), Colon, Space, Str("Unknown: hello"), RBrace>>,
      Obj2("call_id", Str(""), "transcript", Str("Unknown: hello")),
      Obj2("call_id", Null, "transcript", Str("Unknown: hello")),
      Obj2("call_id", Str("c-1"), "transcript", Str("")),
      Obj2("call_id", Str("c-1"), "transcript", Str("Unknown: hello")),
      Obj2("call_id", Str("c-2"), "transcript", Str("Speaker Guest-1: bye")) }

\* a reply of the shape the prompt asks for, with a trailing newline
PlainReply(dimension) ==
    Obj3(dimension \o "_score", Num(5), "summary", Str("ok"),
         "reasoning", Str("fine throughout")) \o <<Newline>>

\* the same object after a sentence of prose
ProseReply(dimension) ==
    <<Junk("Sure,"), Space, Junk("here:"), Space>>
        \o Obj3(dimension \o "_score", Num(5), "summary", Str("ok"),
                "reasoning", Str("fine throughout"))

\* texts the scorer may return for a worker of the given dimension
Replies(dimension) ==
    { PlainReply(dimension),
      Obj3(dimension \o "_score", Num(9), "summary", Str("ok"),
           "reasoning", Str("fine throughout")),
      Obj3(dimension \o "_score", Float(45), "summary", Str("ok"),
           "reasoning", Str("fine throughout")),
      Obj2("summary", Str("ok"), "reasoning", Str("fine throughout")),
      ProseReply(dimension),
      <<Junk("<fence>json"), Newline>>
          \o Obj3(dimension \o "_score", Num(5), "summary", Str("ok"),
                  "reasoning", Str("fine throughout"))
          \o <<Newline, Junk("<fence>")>> }

\* every message a consumer may be handed: at-least-once delivery hands over
\* any message on the topic any number of times
Inbox == TestBodies \cup {topics["transcriptstopic"][i] : i \in 1..Len(topics["transcriptstopic"])}

\* json.loads(msg.get_body().decode('utf-8')); either call may raise
LoadBody(body) == IF Decodes(body) THEN json_loads(body) ELSE ParseError

\* variant: the keys are tested for presence only, not for a falsy value
ValidMessageKeysPresent(body) ==
    LET r == LoadBody(body)
    IN  /\ r.ok
        /\ r.v.k = "obj"
        /\ {"call_id", "transcript"} \subseteq Keys(r.v)

\* variant: a message some consumer has failed on is treated as poisoned
ValidMessageUnlessFailed(body) ==
    LET r == LoadBody(body)
    IN  /\ r.ok
        /\ r.v.k = "obj"
        /\ Truthy(Get(r.v, "call_id"))
        /\ Truthy(Get(r.v, "transcript"))
        /\ failed = {}

\* the try block of a consumer: the body parses, data.get exists (data is a
\* dict) and neither call_id nor transcript is falsy
ValidMessage(body) ==
    LET r == LoadBody(body)
    IN  /\ r.ok
        /\ r.v.k = "obj"
        /\ Truthy(Get(r.v, "call_id"))
        /\ Truthy(Get(r.v, "transcript"))

\* variant: the item's own id is written as its call_id
AssessmentItemIdAsCall(id, cid, assessment_data, type) ==
    [id |-> id, call_id |-> StrValue(id), assessment |-> assessment_data, type |-> type]

\* the item a worker writes
AssessmentItem(id, cid, assessment_data, type) ==
    [id |-> id, call_id |-> cid, assessment |-> assessment_data, type |-> type]

\* variant: the call_id serves as the item's id
TranscriptItemKeyedByCall(id, cid, text) ==
    [id |-> cid.s, call_id |-> cid, transcript |-> text]

\* the item topic_to_cosmos writes
TranscriptItem(id, cid, text) == [id |-> id, call_id |-> cid, transcript |-> text]

\* variant: an upsert keyed by call_id, which replaces the records of the call
upsert_by_call_id(container, item) ==
    {x \in container : x.call_id # item.call_id} \cup {item}

\* container.create_item(item): the item is added, nothing else changes
create_item(container, item) == container \cup {item}

\* the messages blobberfunction has sent to the topic a consumer is subscribed to
OnTopic(fn) == {topics[SubscribedTopic(fn)][i] : i \in 1..Len(topics[SubscribedTopic(fn)])}

\* the consumers that have raised on, or dropped, a valid message of their
\* topic, after an invocation of fn on body that wrote nothing iff nothing holds
LeftWithoutRecord(fn, body, nothing) ==
    IF body \in OnTopic(fn) /\ ValidMessage(body) /\ nothing
    THEN failed \cup {fn} ELSE failed

\* what an invocation was handed, how it ended and what it did to the stores
Invocation(fn, body, response, fault, outcome, scored) ==
    [fn |-> fn, body |-> body, response |-> response, fault |-> fault,
     outcome |-> outcome, scored |-> scored,
     wrote |-> assessStore' \ assessStore,
     removed |-> assessStore \ assessStore',
     wroteTranscripts |-> transcriptStore' \ transcriptStore,
     removedTranscripts |-> transcriptStore \ transcriptStore']

\* one invocation of an assessment worker on a delivered message; reply is
\* what the scorer returns if it is asked, fault what fails if it is reached
assessment_worker(fn, body, reply, fault) ==
    /\ deliveries < MaxDeliveries
    /\ deliveries' = deliveries + 1
    /\ UNCHANGED <<coordVars, environ, transcriptStore, http>>
    /\ IF ~ValidMessage(body)
       THEN \* logged, return
            /\ UNCHANGED <<assessStore, uuids>>
            /\ last' = Invocation(fn, body, <<>>, "none", "returned", FALSE)
       ELSE IF fault \in {"scorer", "no_content"}
       THEN \* client.chat.completions.create or .content.strip() raises
            /\ UNCHANGED <<assessStore, uuids>>
            /\ last' = Invocation(fn, body, <<>>, fault, "raised", TRUE)
       ELSE LET data == LoadBody(body).v
                assessment == Strip(reply)
                parsed == json_loads(assessment)
            IN  IF ~parsed.ok
                THEN \* the reply is not JSON: logged, return
                     /\ UNCHANGED <<assessStore, uuids>>
                     /\ last' = Invocation(fn, body, reply, "none", "returned", TRUE)
                ELSE /\ uuids' = uuids + 1
                     /\ LET item == AssessmentItem(uuid4(uuids'), Get(data, "call_id"),
                                                   parsed.v, Dimension(fn))
                        IN  IF fault = "store"
                            THEN \* a Cosmos call raises
                                 /\ UNCHANGED assessStore
                                 /\ last' = Invocation(fn, body, reply, fault, "raised", TRUE)
                            ELSE /\ assessStore' = create_item(assessStore, item)
                                 /\ last' = Invocation(fn, body, reply, "none", "returned", TRUE)
    /\ failed' = LeftWithoutRecord(fn, body, assessStore' = assessStore)

politeness_from_topic(body, reply, fault) ==
    assessment_worker("politeness_from_topic", body, reply, fault)

empathy_from_topic(body, reply, fault) ==
    assessment_worker("empathy_from_topic", body, reply, fault)

professionalism_from_topic(body, reply, fault) ==
    assessment_worker("professionalism_from_topic", body, reply, fault)

\* one invocation of topic_to_cosmos on a delivered message
topic_to_cosmos(body, fault) ==
    /\ deliveries < MaxDeliveries
    /\ deliveries' = deliveries + 1
    /\ UNCHANGED <<coordVars, environ, assessStore, http>>
    /\ IF ~ValidMessage(body)
       THEN /\ UNCHANGED <<transcriptStore, uuids>>
            /\ last' = Invocation("topic_to_cosmos", body, <<>>, "none", "returned", FALSE)
       ELSE /\ uuids' = uuids + 1
            /\ LET data == LoadBody(body).v
                   item == TranscriptItem(uuid4(uuids'), Get(data, "call_id"),
                                          Get(data, "transcript"))
               IN  IF fault = "store"
                   THEN /\ UNCHANGED transcriptStore
                        /\ last' = Invocation("topic_to_cosmos", body, <<>>, fault,
                                              "raised", FALSE)
                   ELSE /\ transcriptStore' = create_item(transcriptStore, item)
                        /\ last' = Invocation("topic_to_cosmos", body, <<>>, "none",
                                              "returned", FALSE)
    /\ failed' = LeftWithoutRecord("topic_to_cosmos", body, transcriptStore' = transcriptStore)

\* the replies of the scorer to each worker
PolitenessReplies == Replies("politeness")
EmpathyReplies == Replies("empathy")
ProfessionalismReplies == Replies("professionalism")

\* The collaborators are reached only by a valid message, and the scorer
\* returns a reply only when its call does not fail: an invocation that does
\* not get that far is handed no reply and meets no fault.
ConsumerNext ==
    \/ \E body \in Inbox :
           IF ValidMessage(body)
           THEN \/ \E fault \in {"scorer", "no_content"} :
                       politeness_from_topic(body, <<>>, fault)
                \/ \E fault \in {"none", "store"}, reply \in PolitenessReplies :
                       politeness_from_topic(body, reply, fault)
           ELSE politeness_from_topic(body, <<>>, "none")
    \/ \E body \in Inbox :
           IF ValidMessage(body)
           THEN \/ \E fault \in {"scorer", "no_content"} :
                       empathy_from_topic(body, <<>>, fault)
                \/ \E fault \in {"none", "store"}, reply \in EmpathyReplies :
                       empathy_from_topic(body, reply, fault)
           ELSE empathy_from_topic(body, <<>>, "none")
    \/ \E body \in Inbox :
           IF ValidMessage(body)
           THEN \/ \E fault \in {"scorer", "no_content"} :
                       professionalism_from_topic(body, <<>>, fault)
                \/ \E fault \in {"none", "store"}, reply \in ProfessionalismReplies :
                       professionalism_from_topic(body, reply, fault)
           ELSE professionalism_from_topic(body, <<>>, "none")
    \/ \E body \in Inbox :
           IF ValidMessage(body)
           THEN \E fault \in {"none", "store"} : topic_to_cosmos(body, fault)
           ELSE topic_to_cosmos(body, "none")

\* the consumers alone; they never read the environment of blobberfunction
WorkerInit == Init /\ environ.AZURE_SERVICEBUS_TOPIC_NAME = ""

WorkerSpec == WorkerInit /\ [][ConsumerNext]_vars

-----------------------------------------------------------------------------
\* get_all_transcripts: the HTTP route GET /transcripts.

\* the lists a cross-partition query may return for the items of a container:
\* every item once, in an order the store chooses
Orderings(container) ==
    {items \in [1..Cardinality(container) -> container] :
        \A i, j \in 1..Cardinality(container) : items[i] = items[j] => i = j}

\* variant: SELECT c.call_id, c.transcript
ProjectWithoutId(item) ==
    Dict(<<[key |-> "call_id",
            val |-> Scalar(item.call_id.k, item.call_id.s, item.call_id.n)],
           [key |-> "transcript",
            val |-> Scalar(item.transcript.k, item.transcript.s, item.transcript.n)]>>)

\* SELECT c.id, c.call_id, c.transcript FROM c, for one item
Project(item) ==
    Dict(<<[key |-> "id", val |-> Scalar("str", item.id, 0)],
           [key |-> "call_id",
            val |-> Scalar(item.call_id.k, item.call_id.s, item.call_id.n)],
           [key |-> "transcript",
            val |-> Scalar(item.transcript.k, item.transcript.s, item.transcript.n)]>>)

\* json.dumps of a list of dicts
RECURSIVE DumpElements(_)
DumpElements(items) ==
    IF items = <<>> THEN <<>>
    ELSE json_dumps(items[1])
         \o (IF Len(items) = 1 THEN <<>> ELSE <<Comma, Space>> \o DumpElements(Tail(items)))

json_dumps_list(items) == <<LBracket>> \o DumpElements(items) \o <<RBracket>>

\* the text of the error response
ErrorBody == <<Junk("Error"), Space, Junk("fetching"), Space, Junk("transcripts.")>>

\* a response, with what the request met and found and what it did to the stores
HttpResponse(body, status_code, mimetype, fault) ==
    [status_code |-> status_code, body |-> body, mimetype |-> mimetype,
     fault |-> fault, read |-> transcriptStore,
     wrote |-> (assessStore' \cup transcriptStore') \ (assessStore \cup transcriptStore),
     removed |-> (assessStore \cup transcriptStore) \ (assessStore' \cup transcriptStore')]

\* one GET /transcripts; stored is the order in which the query yields the
\* items, fault what fails on the way to them
get_all_transcripts(stored, fault) ==
    /\ UNCHANGED <<coordVars, environ, uuids, assessStore, transcriptStore, last,
                   deliveries, failed>>
    /\ IF fault = "store"
       THEN \* a Cosmos call raises: logged, 500
            http' = HttpResponse(ErrorBody, 500, "", fault)
       ELSE LET items == [i \in 1..Len(stored) |-> Project(stored[i])]
            IN  http' = HttpResponse(json_dumps_list(items), 200, "application/json", fault)

\* the route is called at any time, while topic_to_cosmos fills the container
QueryNext ==
    \/ \E body \in Inbox :
           IF ValidMessage(body)
           THEN \E fault \in {"none", "store"} : topic_to_cosmos(body, fault)
           ELSE topic_to_cosmos(body, "none")
    \/ \E stored \in Orderings(transcriptStore) : get_all_transcripts(stored, "none")
    \/ get_all_transcripts(<<>>, "store")

QuerySpec == WorkerInit /\ [][QueryNext]_vars

-----------------------------------------------------------------------------
\* the whole function app: the coordinator, the consumers and the route side
\* by side
Next ==
    \/ CoordNext
    \/ ConsumerNext
    \/ \E stored \in Orderings(transcriptStore) : get_all_transcripts(stored, "none")
    \/ get_all_transcripts(<<>>, "store")

\* The app end to end with blobberfunction as the only producer: a session of
\* one speaker, and consumers that are handed what blobberfunction sent to
\* their topic, any number of times, with a scorer that answers as asked or
\* with prose, or fails.
PipelineNext ==
    \/ start_transcribing
    \/ handle_transcribed(Event("transcribed", "Guest-1", "hello", ""))
    \/ handle_canceled(Event("canceled", "", "", "EndOfStream"))
    \/ handle_session_stopped(Event("session_stopped", "", "", ""))
    \/ done_wait
    \/ stop_transcribing
    \/ join_transcript
    \/ send_messages
    \/ \E body \in OnTopic("politeness_from_topic") :
           IF ValidMessage(body)
           THEN \/ politeness_from_topic(body, <<>>, "scorer")
                \/ \E fault \in {"none", "store"},
                      reply \in {PlainReply("politeness"), ProseReply("politeness")} :
                       politeness_from_topic(body, reply, fault)
           ELSE politeness_from_topic(body, <<>>, "none")
    \/ \E body \in OnTopic("empathy_from_topic") :
           IF ValidMessage(body)
           THEN \/ empathy_from_topic(body, <<>>, "scorer")
                \/ \E fault \in {"none", "store"},
                      reply \in {PlainReply("empathy"), ProseReply("empathy")} :
                       empathy_from_topic(body, reply, fault)
           ELSE empathy_from_topic(body, <<>>, "none")
    \/ \E body \in OnTopic("professionalism_from_topic") :
           IF ValidMessage(body)
           THEN \/ professionalism_from_topic(body, <<>>, "scorer")
                \/ \E fault \in {"none", "store"},
                      reply \in {PlainReply("professionalism"), ProseReply("professionalism")} :
                       professionalism_from_topic(body, reply, fault)
           ELSE professionalism_from_topic(body, <<>>, "none")
    \/ \E body \in OnTopic("topic_to_cosmos") :
           IF ValidMessage(body)
           THEN \E fault \in {"none", "store"} : topic_to_cosmos(body, fault)
           ELSE topic_to_cosmos(body, "none")

PipelineSpec == Init /\ [][PipelineNext]_vars

Spec == Init /\ [][Next]_vars

-----------------------------------------------------------------------------
\* Properties of blobberfunction.

\* every message on any topic, in the order sent
Published == topics["transcripttopic"] \o topics["transcriptstopic"]

IsTerminal(e) == e.type \in {"canceled", "session_stopped"}
TerminalsDelivered == Len(SelectSeq(delivered, IsTerminal))

\* C1: under every interleaving of the canceled and the session-stopped event
\* the flag done goes from unset to set exactly once and is never unset, the
\* second terminal event changes nothing the first one left, and the wait on
\* the flag returns.
C1_DoneSetExactlyOnce ==
    /\ [][done => done']_vars
    /\ [](doneTransitions <= 1)
    /\ []((session.canceled \/ session.stopped) => (done /\ doneTransitions = 1))
    /\ [][(TerminalsDelivered = 1 /\ TerminalsDelivered' = 2)
            => UNCHANGED <<done, doneTransitions, transcript_lines, pc, topics>>]_vars
    /\ ((pc = "wait" /\ done) ~> (pc # "wait"))

C1_Witness ==
    /\ session.canceled /\ session.stopped
    /\ done /\ doneTransitions = 1
    /\ pc = "stop"

\* C2: at most one message is ever published; a message is published only
\* after done is set and teardown was requested; a run that returns has
\* published exactly one message and a run that raised has published none.
C2_PublishOnceAfterTeardown ==
    /\ Len(Published) <= 1
    /\ (Len(Published) = 1 => (done /\ session.stopRequested))
    /\ (pc = "sent" <=> Len(Published) = 1)
    /\ (pc = "raised" => Len(Published) = 0)

C2_Witness == pc = "sent" /\ Len(Published) = 1 /\ delivered # <<>>

\* the line an utterance contributes, as the specification words it
ExpectedLine(e) ==
    (IF e.speaker_id = "" THEN "Unknown" ELSE "Speaker " \o e.speaker_id)
        \o ": " \o e.text

Spoken(evts) == SelectSeq(evts, LAMBDA e : e.type = "transcribed" /\ e.text # "")

RECURSIVE JoinedUpTo(_, _)
JoinedUpTo(evts, n) ==
    IF n = 0 THEN ""
    ELSE IF n = 1 THEN ExpectedLine(evts[1])
    ELSE JoinedUpTo(evts, n - 1) \o "\n" \o ExpectedLine(evts[n])

ExpectedTranscript == JoinedUpTo(Spoken(delivered), Len(Spoken(delivered)))

\* C3: the published transcript is the lines "<label>: <text>" of the delivered
\* utterances with non-empty text, in delivery order, joined by newline; the
\* label is "Speaker {id}" for a present speaker id and "Unknown" otherwise.
C3_TranscriptIsSpokenLines ==
    /\ pc \in {"send", "sent"} => transcript = ExpectedTranscript
    /\ \A i \in 1..Len(Published) :
           /\ json_loads(Published[i]).ok
           /\ Get(json_loads(Published[i]).v, "transcript") = StrValue(ExpectedTranscript)

C3_Witness ==
    /\ pc = "sent" /\ Len(Published) = 1
    /\ Len(Spoken(delivered)) >= 2
    /\ \E i \in 1..Len(delivered) : delivered[i].type = "transcribed" /\ delivered[i].text = ""
    /\ \E i \in 1..Len(delivered) :
           delivered[i].type = "transcribed" /\ delivered[i].speaker_id = "" /\ delivered[i].text # ""
    /\ \E i \in 1..Len(delivered) :
           delivered[i].type = "transcribed" /\ delivered[i].speaker_id # "" /\ delivered[i].text # ""

ErrorCanceled ==
    \E i \in 1..Len(delivered) :
        delivered[i].type = "canceled" /\ delivered[i].reason = "Error"

\* C4: a session that was canceled with reason Error completes like a cleanly
\* stopped one: the flag is set, no failure other than a raising collaborator
\* call ends the run, and the one message published carries one fresh call_id
\* and the transcript of the utterance history, whatever the terminal event.
C4_ErrorCancelStillPublishes ==
    ErrorCanceled =>
        /\ done
        /\ (pc = "raised" => failure \in {"stop", "send"})
        /\ (pc = "sent" =>
               /\ uuids = 1
               /\ Published = <<json_dumps(Dict(
                      <<[key |-> "call_id", val |-> Scalar("str", uuid4(1), 0)],
                        [key |-> "transcript",
                         val |-> Scalar("str", ExpectedTranscript, 0)]>>))>>)

C4_Witness ==
    /\ ErrorCanceled /\ ~session.stopped
    /\ pc = "sent" /\ Len(Published) = 1
    /\ transcript # ""

\* C5: every published message is a JSON object with the keys call_id and
\* transcript, also when the transcript is the empty string.
C5_MessageHasBothKeys ==
    \A i \in 1..Len(Published) :
        LET r == json_loads(Published[i])
        IN  /\ r.ok
            /\ r.v.k = "obj"
            /\ {"call_id", "transcript"} \subseteq Keys(r.v)

C5_Witness ==
    /\ pc = "sent" /\ Len(Published) = 1
    /\ Spoken(delivered) = <<>>
    /\ Get(json_loads(Published[1]).v, "transcript") = StrValue("")

-----------------------------------------------------------------------------
\* Properties of the consumers.

\* a message as the message schema wants it: a JSON object whose call_id and
\* transcript are non-empty strings
WellFormed(body) ==
    LET r == LoadBody(body)
    IN  /\ r.ok
        /\ {"call_id", "transcript"} \subseteq Keys(r.v)
        /\ \A key \in {"call_id", "transcript"} :
               Get(r.v, key).k = "str" /\ Get(r.v, key).s # ""

\* a message that does not decode as JSON or whose call_id or transcript is
\* missing or empty
Malformed(body) ==
    LET r == LoadBody(body)
    IN  \/ ~r.ok
        \/ \E key \in {"call_id", "transcript"} :
               key \notin Keys(r.v) \/ Get(r.v, key) = StrValue("")

\* the mandated shape {"<dimension>_score": <int>, "summary": <string>,
\* "reasoning": <string>} of a reply
ShapeOk(text, dimension) ==
    LET r == json_loads(text)
    IN  /\ r.ok
        /\ r.v.k = "obj"
        /\ Keys(r.v) = {dimension \o "_score", "summary", "reasoning"}
        /\ Get(r.v, dimension \o "_score").k = "int"
        /\ Get(r.v, "summary").k = "str"
        /\ Get(r.v, "reasoning").k = "str"

ScoreOk(assessment, dimension) ==
    LET score == Get(assessment, dimension \o "_score")
    IN  score.k = "int" /\ score.n \in 1..5

Conforming(text, dimension) ==
    ShapeOk(text, dimension) /\ ScoreOk(json_loads(text).v, dimension)

\* the last invocation was a worker's and the scorer returned a reply to it
GotReply == last.fn \in WorkerFns /\ last.scored /\ last.fault \in {"none", "store"}

\* C6: a consumer handed a message that does not decode as JSON, or whose
\* call_id or transcript is missing or empty, returns normally without asking
\* the scorer and without changing either store.
C6_MalformedMessageDropped ==
    (last.fn # "none" /\ Malformed(last.body)) =>
        /\ last.outcome = "returned"
        /\ ~last.scored
        /\ last.wrote = {} /\ last.removed = {}
        /\ last.wroteTranscripts = {} /\ last.removedTranscripts = {}

C6_Witness ==
    /\ last.fn \in WorkerFns /\ Malformed(last.body)
    /\ last.outcome = "returned"
    /\ assessStore # {}

\* C7: a worker whose scorer reply is not a JSON object of the mandated shape
\* persists nothing for that delivery.
C7_NonconformingReplyNotPersisted ==
    (GotReply /\ ~ShapeOk(last.response, Dimension(last.fn))) => last.wrote = {}

\* C8: the score of every persisted assessment is an integer in 1..5: a reply
\* whose score is outside 1..5 or not an integer leaves no record.  (A reply
\* without a score is not of the mandated shape, which C7 covers.)
C8_ScoresInRange ==
    \A item \in assessStore :
        (item.type \o "_score") \in Keys(item.assessment) =>
            ScoreOk(item.assessment, item.type)

\* C9: a worker handed a well-formed message and a conforming reply, with the
\* store reachable, persists exactly one item: a fresh id, the message's
\* call_id, the worker's dimension and the reply's score, summary and reasoning.
C9_ConformingReplyPersisted ==
    (GotReply /\ last.fault = "none" /\ WellFormed(last.body)
       /\ Conforming(last.response, Dimension(last.fn))) =>
        /\ last.outcome = "returned"
        /\ last.removed = {}
        /\ last.wroteTranscripts = {} /\ last.removedTranscripts = {}
        /\ Cardinality(last.wrote) = 1
        /\ \A item \in last.wrote :
               /\ item.call_id = Get(LoadBody(last.body).v, "call_id")
               /\ item.type = Dimension(last.fn)
               /\ \A key \in {item.type \o "_score", "summary", "reasoning"} :
                      Get(item.assessment, key) = Get(json_loads(last.response).v, key)
               /\ \A other \in assessStore \ {item} : other.id # item.id
               /\ \A other \in transcriptStore : other.id # item.id

C9_Witness ==
    /\ last.fn = "politeness_from_topic"
    /\ last.outcome = "returned"
    /\ \E item \in last.wrote :
           /\ item.type = "politeness"
           /\ Get(item.assessment, "politeness_score") = Lift(Scalar("int", "", 5))
           /\ item.call_id = StrValue("c-2")

\* the assessment store as the last invocation found it
StoreBefore == (assessStore \ last.wrote) \cup last.removed

\* C10: a worker handed a message whose (call_id, dimension) already has a
\* record adds a second record with another id; the earlier record stays.
C10_RedeliveryDuplicates ==
    LET dimension == Dimension(last.fn)
        cid == Get(LoadBody(last.body).v, "call_id")
    IN  (GotReply /\ last.fault = "none" /\ WellFormed(last.body)
           /\ Conforming(last.response, dimension)
           /\ \E prior \in StoreBefore : prior.call_id = cid /\ prior.type = dimension) =>
            /\ last.outcome = "returned"
            /\ last.removed = {}
            /\ Cardinality(last.wrote) = 1
            /\ \A item \in last.wrote : \A prior \in StoreBefore : prior.id # item.id
            /\ Cardinality({x \in assessStore : x.call_id = cid /\ x.type = dimension}) >= 2

C10_Witness ==
    /\ GotReply /\ last.outcome = "returned"
    /\ \E x \in assessStore : \E y \in last.wrote :
           /\ x.id # y.id
           /\ x.call_id = y.call_id /\ x.type = y.type
           /\ x.assessment = y.assessment
           /\ Conforming(last.response, y.type)

-----------------------------------------------------------------------------
\* Properties of the pipeline from blobberfunction to the stores.

\* C11: under its default configuration (AZURE_SERVICEBUS_TOPIC_NAME unset)
\* blobberfunction sends to the one topic every consumer subscription is bound
\* to, so that a published message is on the topic of each of the four
\* consumers.
C11_DefaultTopicIsSubscribedTopic ==
    (environ.AZURE_SERVICEBUS_TOPIC_NAME = "" /\ pc = "sent") =>
        \A fn \in Consumers :
            \E i \in 1..Len(topics[SubscribedTopic(fn)]) :
                topics[SubscribedTopic(fn)][i] = transcript_json

\* the transcript records that carry the call_id of the session
SessionRecords == {r \in transcriptStore : call_id # "" /\ r.call_id = StrValue(call_id)}

\* topic_to_cosmos was handed the session's message last and returned
PersisterHandledSession ==
    /\ pc = "sent"
    /\ last.fn = "topic_to_cosmos" /\ last.body = transcript_json
    /\ last.outcome = "returned"

\* C12 as stated: once a session has completed and its message is published
\* there is never more than one transcript record with its call_id, and there
\* is exactly one once topic_to_cosmos has handled the message.
C12_ExactlyOneTranscriptRecord ==
    pc = "sent" =>
        /\ Cardinality(SessionRecords) <= 1
        /\ PersisterHandledSession => Cardinality(SessionRecords) = 1

\* C12, amended: a transcript record exists only for a published session with
\* a non-empty transcript and carries its call_id and transcript; each delivery
\* of the session's message that topic_to_cosmos handles to the end adds
\* exactly one such record (none for an empty transcript, a further one for
\* every redelivery); no record is ever modified or removed.
C12_OneTranscriptRecordPerDelivery ==
    /\ [](\A r \in transcriptStore :
              /\ pc = "sent" /\ transcript # ""
              /\ r.call_id = StrValue(call_id)
              /\ r.transcript = StrValue(transcript))
    /\ [](PersisterHandledSession =>
              IF transcript = "" THEN last.wroteTranscripts = {}
              ELSE /\ Cardinality(last.wroteTranscripts) = 1
                   /\ last.wroteTranscripts \subseteq SessionRecords)
    /\ [][/\ transcriptStore \subseteq transcriptStore'
          /\ Cardinality(transcriptStore') <= Cardinality(transcriptStore) + 1]_vars

C12_Witness ==
    /\ PersisterHandledSession
    /\ Cardinality(SessionRecords) = 2

\* the call_id values of the messages blobberfunction has published
PublishedCallIds ==
    {Get(json_loads(Published[i]).v, "call_id") : i \in 1..Len(Published)}

\* C13: the call_id is drawn once per session, by blobberfunction, before the
\* send; every transcript and assessment record carries the call_id of a
\* message blobberfunction published, all records of the one message carry the
\* same call_id, and no consumer writes a value of its own (the uuid it draws
\* for the record's id) as call_id.
C13_CallIdPropagated ==
    /\ [][call_id' # call_id => (pc = "join" /\ call_id = "" /\ pc' = "send")]_vars
    /\ [](\A i \in 1..Len(Published) :
              Get(json_loads(Published[i]).v, "call_id") = StrValue(call_id))
    /\ [](\A r \in assessStore \cup transcriptStore :
              /\ r.call_id \in PublishedCallIds
              /\ r.call_id # StrValue(r.id)
              /\ \A other \in assessStore \cup transcriptStore : other.call_id = r.call_id)

C13_Witness ==
    /\ pc = "sent"
    /\ \E r \in transcriptStore : r.call_id = StrValue(call_id)
    /\ \E r \in assessStore : r.call_id = StrValue(call_id)

\* the last invocation met no fault of its own on a well-formed message of
\* blobberfunction: the store was reachable and, for a worker, the scorer
\* returned a conforming reply
LastUnhindered ==
    /\ last.fn \in Consumers
    /\ last.body \in OnTopic(last.fn) /\ WellFormed(last.body)
    /\ last.fault = "none"
    /\ last.fn \in WorkerFns =>
           GotReply /\ Conforming(last.response, Dimension(last.fn))

\* C14: the consumers are isolated from one another and from blobberfunction.
\* After one consumer has raised on, or dropped, a message, another consumer
\* that is handed the message and meets no fault of its own persists its one
\* record for it; no consumer step touches the state of blobberfunction or the
\* topic.  (That the topic hands the message to each subscription whatever the
\* others did is the broker's part: the consumers' guards read nothing a
\* consumer writes but the bound on deliveries.)
C14_FanOutIsolation ==
    /\ []((LastUnhindered /\ failed \ {last.fn} # {}) =>
              /\ last.outcome = "returned"
              /\ Cardinality(last.wrote \cup last.wroteTranscripts) = 1
              /\ \A item \in last.wrote \cup last.wroteTranscripts :
                     item.call_id = Get(LoadBody(last.body).v, "call_id"))
    /\ [][last' # last => UNCHANGED coordVars]_vars

C14_Witness ==
    /\ LastUnhindered
    /\ last.fn = "topic_to_cosmos"
    /\ failed = {"politeness_from_topic"}
    /\ Cardinality(last.wroteTranscripts) = 1

\* C15: a unit of work that meets an unreachable collaborator writes nothing.
\* A run of blobberfunction that a raising recognizer or broker call ends has
\* published no message; a consumer invocation that a raising scorer or store
\* call ends has added nothing to and removed nothing from either store.
C15_FailedUnitWritesNothing ==
    /\ pc = "raised" =>
           /\ failure \in {"start", "stop", "send"}
           /\ Published = <<>>
           /\ assessStore = {} /\ transcriptStore = {}
    /\ last.outcome = "raised" =>
           /\ last.fault \in {"scorer", "store"}
           /\ last.wrote = {} /\ last.removed = {}
           /\ last.wroteTranscripts = {} /\ last.removedTranscripts = {}

C15_Witness ==
    /\ last.fn \in WorkerFns
    /\ last.outcome = "raised" /\ last.fault = "store"
    /\ assessStore # {}

-----------------------------------------------------------------------------
\* Properties of topic_to_cosmos and of the consumers taken together.

\* C16: topic_to_cosmos handed a well-formed message, with the store
\* reachable, persists exactly one transcript record for the delivery: a fresh
\* id, the call_id and the transcript of the message; it does not ask the
\* scorer and leaves the assessment store alone.
C16_PersisterStoresMessage ==
    (last.fn = "topic_to_cosmos" /\ last.fault = "none" /\ WellFormed(last.body)) =>
        /\ last.outcome = "returned"
        /\ ~last.scored /\ last.response = <<>>
        /\ last.wrote = {} /\ last.removed = {}
        /\ last.removedTranscripts = {}
        /\ Cardinality(last.wroteTranscripts) = 1
        /\ \A item \in last.wroteTranscripts :
               /\ DOMAIN item = {"id", "call_id", "transcript"}
               /\ item.call_id = Get(LoadBody(last.body).v, "call_id")
               /\ item.transcript = Get(LoadBody(last.body).v, "transcript")
               /\ \A other \in transcriptStore \ {item} : other.id # item.id
               /\ \A other \in assessStore : other.id # item.id

C16_Witness ==
    /\ last.fn = "topic_to_cosmos" /\ last.outcome = "returned"
    /\ assessStore # {}
    /\ \E item \in last.wroteTranscripts :
           /\ item.call_id = StrValue("c-2")
           /\ item.transcript = StrValue("Speaker Guest-1: bye")

\* the index of the first "}" at or after i, 0 when there is none
FirstClose(toks, i) ==
    IF \E j \in i..Len(toks) : toks[j].t = "}"
    THEN CHOOSE j \in i..Len(toks) :
             toks[j].t = "}" /\ \A k \in i..(j - 1) : toks[k].t # "}"
    ELSE 0

\* the objects of a JSON array of flat objects, toks being the tokens between
\* its brackets
RECURSIVE Objects(_, _, _)
Objects(toks, i, acc) ==
    LET close == FirstClose(toks, i)
        object == json_loads(SubSeq(toks, i, close))
    IN  IF close = 0 \/ ~object.ok \/ object.v.k # "obj" THEN [ok |-> FALSE, v |-> <<>>]
        ELSE IF close = Len(toks) THEN [ok |-> TRUE, v |-> Append(acc, object.v)]
        ELSE IF close + 1 < Len(toks) /\ toks[close + 1].t = ","
        THEN Objects(toks, close + 2, Append(acc, object.v))
        ELSE [ok |-> FALSE, v |-> <<>>]

\* a response body read as a JSON array of flat objects
ParseObjects(text) ==
    LET toks == SelectSeq(text, LAMBDA tok : tok.t # "ws")
        n == Len(toks)
    IN  IF n < 2 \/ toks[1].t # "[" \/ toks[n].t # "]" THEN [ok |-> FALSE, v |-> <<>>]
        ELSE IF n = 2 THEN [ok |-> TRUE, v |-> <<>>]
        ELSE Objects(SubSeq(toks, 2, n - 1), 1, <<>>)

\* C17: get_all_transcripts answers 200 with a JSON array that holds, for
\* every record of the transcript store and for nothing else, the object of
\* its id, call_id and transcript (the empty array for an empty store) when
\* the read succeeds, and 500 with the text "Error fetching transcripts." when
\* it fails; neither store is changed by the request.
C17_QueryAnswers ==
    http.status_code # 0 =>
        /\ http.wrote = {} /\ http.removed = {}
        /\ IF http.fault = "none"
           THEN LET r == ParseObjects(http.body)
                IN  /\ http.status_code = 200
                    /\ r.ok
                    /\ Len(r.v) = Cardinality(http.read)
                    /\ \A i \in 1..Len(r.v) : Keys(r.v[i]) = {"id", "call_id", "transcript"}
                    /\ {<<Get(r.v[i], "id"), Get(r.v[i], "call_id"), Get(r.v[i], "transcript")>> :
                            i \in 1..Len(r.v)}
                         = {<<StrValue(item.id), item.call_id, item.transcript>> :
                                item \in http.read}
                    /\ http.read = {} => http.body = <<LBracket, RBracket>>
           ELSE /\ http.status_code = 500
                /\ http.body = <<Junk("Error"), Space, Junk("fetching"), Space,
                                 Junk("transcripts.")>>

C17_Witness ==
    /\ http.status_code = 200
    /\ Cardinality(http.read) = 2
    /\ \E x, y \in http.read : x.call_id # y.call_id

-----------------------------------------------------------------------------
\* Further properties of blobberfunction.

\* C18: within one session the lines of one speaker id carry one label and
\* the lines of two different speaker ids carry different labels: of two lines
\* with the same text, the speaker ids are equal exactly when the lines are.
C18_LabelsFollowSpeakers ==
    LET spoken == Spoken(delivered)
    IN  /\ Len(transcript_lines) = Len(spoken)
        /\ \A i, j \in 1..Len(spoken) :
               spoken[i].text = spoken[j].text =>
                   (spoken[i].speaker_id = spoken[j].speaker_id
                        <=> transcript_lines[i] = transcript_lines[j])

C18_Witness ==
    /\ pc = "sent"
    /\ Len(transcript_lines) = 3
    /\ Spoken(delivered)[1].speaker_id = "Guest-1"
    /\ Spoken(delivered)[2].speaker_id = "Guest-2"
    /\ Spoken(delivered)[3].speaker_id = "Guest-1"
    /\ transcript_lines[1] = transcript_lines[3]
    /\ transcript_lines[1] # transcript_lines[2]

\* C19 as stated, in the form a finite run decides: a run to which a terminal
\* event was delivered does not end without having published.
C19_TerminalEventAlwaysPublishes ==
    (TerminalsDelivered >= 1 /\ pc = "raised") => Len(Published) = 1

\* C19, amended: the wait has no timeout.  As long as no canceled or
\* session-stopped event has been delivered the caller is at or before the
\* wait (or the start itself raised), has not asked for teardown and has
\* published nothing; once a terminal event has been delivered the caller
\* eventually asks for teardown, and eventually either has published its one
\* message or has been ended by a raising stop or send.
C19_WaitHasNoTimeout ==
    /\ [](TerminalsDelivered = 0 =>
              /\ pc \in {"start", "wait"} \/ (pc = "raised" /\ failure = "start")
              /\ ~session.stopRequested
              /\ Published = <<>>)
    /\ (TerminalsDelivered >= 1) ~>
           /\ session.stopRequested
           /\ \/ pc = "sent" /\ Len(Published) = 1
              \/ pc = "raised" /\ failure \in {"stop", "send"} /\ Published = <<>>

C19_Witness ==
    /\ TerminalsDelivered = 1
    /\ session.stopRequested
    /\ pc = "sent" /\ Len(Published) = 1
    /\ Utterances = 0

-----------------------------------------------------------------------------
\* Order of processing.

\* a set of records without their generated ids
WithoutIds(records) ==
    {[field \in DOMAIN r \ {"id"} |-> r[field]] : r \in records}

\* what a consumer persists for one delivery, ids aside, as a function of what
\* the delivery was handed (message, reply, fault) and of nothing else
Contribution(inv) ==
    IF ~WellFormed(inv.body) \/ inv.fault # "none" THEN {}
    ELSE LET data == LoadBody(inv.body).v
         IN  IF inv.fn = "topic_to_cosmos"
             THEN {[call_id |-> Get(data, "call_id"), transcript |-> Get(data, "transcript")]}
             ELSE IF json_loads(Strip(inv.response)).ok
             THEN {[call_id |-> Get(data, "call_id"), type |-> Dimension(inv.fn),
                    assessment |-> json_loads(Strip(inv.response)).v]}
             ELSE {}

\* C20: the order of processing does not matter.  Every delivery adds to the
\* stores its own contribution, which depends on the delivered message (and on
\* the scorer's reply to it) alone and not on what was processed before, and
\* removes or changes nothing: the records persisted for a set of deliveries
\* are, ids aside, the sum of the contributions in whatever order they ran.
C20_OrderIndependent ==
    last.fn # "none" =>
        /\ last.removed = {} /\ last.removedTranscripts = {}
        /\ WithoutIds(last.wrote \cup last.wroteTranscripts) = Contribution(last)
        /\ Cardinality(last.wrote \cup last.wroteTranscripts) = Cardinality(Contribution(last))
        /\ \A item \in last.wrote \cup last.wroteTranscripts :
               \A other \in (assessStore \cup transcriptStore) \ {item} : other.id # item.id

C20_Witness ==
    /\ deliveries = 2
    /\ last.fn = "empathy_from_topic"
    /\ \E x \in last.wrote : \E y \in assessStore \ last.wrote :
           /\ x.type = y.type
           /\ x.call_id = StrValue("c-1") /\ y.call_id = StrValue("c-2")

-----------------------------------------------------------------------------
\* The session without utterances, and late utterances.

\* the records of either store that carry the call_id of the session
RecordsOfSession ==
    {r \in assessStore \cup transcriptStore : r.call_id = StrValue(call_id)}

\* C21: a session that ends without a non-empty utterance still publishes its
\* message, with the empty string as transcript; every consumer handed that
\* message returns without asking the scorer and without writing, so that no
\* transcript record and no assessment record of the session's call_id exists.
C21_EmptyTranscriptPublishedAndDropped ==
    (Spoken(delivered) = <<>> /\ pc \in {"send", "sent"}) =>
        /\ transcript = ""
        /\ Get(json_loads(transcript_json).v, "transcript") = StrValue("")
        /\ pc = "sent" => Published = <<transcript_json>>
        /\ RecordsOfSession = {}
        /\ (last.fn # "none" /\ last.body = transcript_json) =>
               /\ last.outcome = "returned"
               /\ ~last.scored
               /\ last.wrote = {} /\ last.wroteTranscripts = {}

C21_Witness ==
    /\ pc = "sent" /\ Spoken(delivered) = <<>>
    /\ Published = <<transcript_json>>
    /\ deliveries = 2
    /\ last.fn \in WorkerFns /\ last.body = transcript_json
    /\ last.outcome = "returned"

\* the place in the history of the first canceled or session-stopped event,
\* one past its end when there is none
FirstTerminalAt ==
    IF TerminalsDelivered = 0 THEN Len(delivered) + 1
    ELSE CHOOSE i \in 1..Len(delivered) :
             IsTerminal(delivered[i]) /\ \A j \in 1..(i - 1) : ~IsTerminal(delivered[j])

\* how many non-empty utterances came before the first terminal event
SpokenBeforeTerminal == Len(Spoken(SubSeq(delivered, 1, FirstTerminalAt - 1)))

\* C22: the published transcript is a prefix, in delivery order, of the lines
\* of all non-empty utterances of the session, and holds at least those
\* delivered before the first terminal event.  An utterance delivered after
\* the flag was set is in it exactly when it was delivered before the join:
\* the join takes every line delivered so far, in order, and no later
\* delivery changes the transcript or the message.
C22_PublishedIsPrefix ==
    /\ [](pc \in {"send", "sent"} =>
              /\ \E k \in SpokenBeforeTerminal..Len(Spoken(delivered)) :
                     transcript = JoinedUpTo(Spoken(delivered), k)
              /\ \A i \in 1..Len(Published) :
                     Get(json_loads(Published[i]).v, "transcript") = StrValue(transcript))
    /\ [][(pc = "join" /\ pc' = "send") =>
              transcript' = JoinedUpTo(Spoken(delivered), Len(Spoken(delivered)))]_vars
    /\ [][(pc = "send" \/ pc = "sent") =>
              (transcript' = transcript /\ transcript_json' = transcript_json)]_vars

C22_Witness ==
    /\ pc = "sent" /\ Len(Published) = 1
    /\ SpokenBeforeTerminal = 1
    /\ Len(Spoken(delivered)) = 3
    /\ transcript = JoinedUpTo(Spoken(delivered), 2)
    /\ Spoken(delivered)[1].speaker_id # Spoken(delivered)[2].speaker_id

====
